---- MODULE Spec2Model ----
(***************************************************************************)
(* Model of file_read_backwards/buffer_work_space.py: the BufferWorkSpace  *)
(* that reads a file backwards in chunks and hands out its lines, last     *)
(* line first.                                                             *)
(*                                                                         *)
(* Bytes are integers (13 = CR, 10 = LF, 120 = "x").  A bytes object is a  *)
(* sequence of bytes.  Python indices are 0-based and are kept 0-based in  *)
(* every operator that returns or receives an index.                       *)
(***************************************************************************)
EXTENDS Integers, Sequences, FiniteSets, TLC

\* ---------------------------------------------------------------- bounds
\* longest file content explored
MaxLen == 4
\* largest chunk_size explored (MaxLen + 1 is "larger than the file")
MaxChunk == 5

\* ------------------------------------------------------- python built-ins
Min2(a, b) == IF a <= b THEN a ELSE b
Max2(a, b) == IF a >= b THEN a ELSE b

\* s[a:b] for 0 <= a, b
Slice(s, a, b) == SubSeq(s, a + 1, Min2(b, Len(s)))

\* line.endswith(n)
endswith(line, n) ==
    /\ Len(n) <= Len(line)
    /\ SubSeq(line, Len(line) - Len(n) + 1, Len(line)) = n

\* the 0-based offsets at which n occurs in s
Occurrences(s, n) ==
    {i \in 0..(Len(s) - Len(n)) : SubSeq(s, i + 1, i + Len(n)) = n}

\* s.rfind(n): highest offset of n in s, -1 when absent
rfind(s, n) ==
    IF Occurrences(s, n) = {} THEN -1
    ELSE CHOOSE i \in Occurrences(s, n) : \A j \in Occurrences(s, n) : j <= i

\* s.find(n): lowest offset of n in s, -1 when absent
find(s, n) ==
    IF Occurrences(s, n) = {} THEN -1
    ELSE CHOOSE i \in Occurrences(s, n) : \A j \in Occurrences(s, n) : i <= j

\* max(list) of a non-empty list of integers
max(xs) == CHOOSE m \in {xs[i] : i \in DOMAIN xs} :
               \A i \in DOMAIN xs : xs[i] <= m

\* reversed(xs)
Reverse(xs) == [i \in 1..Len(xs) |-> xs[Len(xs) + 1 - i]]

\* ord(c) of the characters the newline table uses
ord(c) == CASE c = "\r" -> 13 [] c = "\n" -> 10

\* str.encode('utf-8') of an ASCII string, one byte per character
encode(str) == [i \in DOMAIN str |-> ord(str[i])]

\* new_lines = ["\r\n", "\n", "\r"], each string as its sequence of characters
new_lines == << <<"\r", "\n">>, <<"\n">>, <<"\r">> >>

\* self.new_lines_bytes = [n.encode(encoding) for n in new_lines]
new_lines_bytes == [k \in DOMAIN new_lines |-> encode(new_lines[k])]

\* read_buffer is None / read_buffer is a bytes object b
None == <<>>
Some(b) == <<b>>
IsNone(rb) == rb = None
Get(rb) == rb[1]

\* ------------------------------------------------------------ the file
\* fp.read(n) after fp.seek(position): at most n bytes, fewer at end of file
\* (fp.seek of a negative offset raises: nothing is read)
fp_read(fp, position, n) ==
    IF position < 0 \/ position >= Len(fp.data) \/ n <= 0 THEN <<>>
    ELSE SubSeq(fp.data, position + 1, Min2(position + n, Len(fp.data)))

_get_file_size(fp) == Len(fp.data)

\* ------------------------------------------------------ module functions
RECURSIVE Buckets(_, _)
Buckets(ns, k) ==
    IF k = 0 THEN <<>>
    ELSE SelectSeq(ns, LAMBDA n : Len(n) = k) \o Buckets(ns, k - 1)

\* sorted(new_lines_bytes, key=len, reverse=True): stable, longest first
sorted_by_len_reverse(ns) ==
    Buckets(ns, max([k \in DOMAIN ns |-> Len(ns[k])]))

RECURSIVE remove_first_match(_, _, _)
remove_first_match(line, ns, k) ==
    IF k > Len(ns) THEN line
    ELSE IF endswith(line, ns[k]) THEN Slice(line, 0, Len(line) - Len(ns[k]))
    ELSE remove_first_match(line, ns, k + 1)

\* mutant: every trailing terminator is removed, not only one
RECURSIVE remove_every_match(_, _)
remove_every_match(line, ns) ==
    IF remove_first_match(line, ns, 1) = line THEN line
    ELSE remove_every_match(remove_first_match(line, ns, 1), ns)

_remove_trailing_new_line_every(line, nlb) ==
    remove_every_match(line, sorted_by_len_reverse(nlb))

\* mutant: the candidates tried shortest first (reverse=True forgotten)
_remove_trailing_new_line_shortest_first(line, nlb) ==
    remove_first_match(line, Reverse(sorted_by_len_reverse(nlb)), 1)

_remove_trailing_new_line(line, nlb) ==
    remove_first_match(line, sorted_by_len_reverse(nlb), 1)

\* mutant: the leftmost newline (find for rfind)
_find_nearest_new_line(rb, nlb) ==
    max([k \in DOMAIN nlb |-> find(rb, nlb[k])])

_find_furthest_new_line(rb, nlb) ==
    max([k \in DOMAIN nlb |-> rfind(rb, nlb[k])])

\* mutant: only a third or later byte of a separator counts (> 1 for >= 1)
_is_partially_read_new_line_after_second(b, nlb) ==
    \E k \in DOMAIN nlb : find(nlb[k], b) > 1

\* mutant: the first byte of a separator counts too (>= 0 for >= 1)
_is_partially_read_new_line_any_index(b, nlb) ==
    \E k \in DOMAIN nlb : b # <<>> /\ find(nlb[k], b) >= 0

_is_partially_read_new_line(b, nlb) ==
    \E k \in DOMAIN nlb : find(nlb[k], b) >= 1

\* the while loop of _get_what_to_read_next, from (seek_position, read_size)
RECURSIVE find_reading_point(_, _, _, _)
find_reading_point(fp, seek_position, read_size, nlb) ==
    IF seek_position > 0
       /\ _is_partially_read_new_line(fp_read(fp, seek_position, 1), nlb)
    THEN find_reading_point(fp, seek_position - 1, read_size + 1, nlb)
    ELSE <<seek_position, read_size>>

\* mutant: read_size is not clamped to previously_read_position - seek_position
_get_what_to_read_next_unclamped(fp, previously_read_position, chunk, nlb) ==
    find_reading_point(
        fp, Max2(previously_read_position - chunk, 0), chunk, nlb)

\* mutant: seek_position is not clamped to 0
_get_what_to_read_next_below_zero(fp, previously_read_position, chunk, nlb) ==
    LET p == find_reading_point(
                 fp, previously_read_position - chunk, chunk, nlb)
    IN  <<p[1], Min2(previously_read_position - p[1], p[2])>>

_get_what_to_read_next(fp, previously_read_position, chunk, nlb) ==
    LET p == find_reading_point(
                 fp, Max2(previously_read_position - chunk, 0), chunk, nlb)
    IN  <<p[1], Min2(previously_read_position - p[1], p[2])>>

_get_next_chunk(fp, previously_read_position, chunk, nlb) ==
    LET w == _get_what_to_read_next(fp, previously_read_position, chunk, nlb)
    IN  <<fp_read(fp, w[1], w[2]), w[1]>>

\* ------------------------------------------------------- BufferWorkSpace
\* __init__(fp, chunk_size)
BufferWorkSpace(fp, chunk) ==
    [fp |-> fp,
     read_position |-> _get_file_size(fp),
     read_buffer |-> None,
     chunk_size |-> chunk]

\* mutant: the new bytes replace the buffered ones
add_to_buffer_replace(self, content, position) ==
    [self EXCEPT !.read_position = position,
                 !.read_buffer = Some(content)]

\* mutant: the new bytes are put behind the buffered ones
add_to_buffer_append(self, content, position) ==
    [self EXCEPT !.read_position = position,
                 !.read_buffer = IF IsNone(self.read_buffer)
                                 THEN Some(content)
                                 ELSE Some(Get(self.read_buffer) \o content)]

add_to_buffer(self, content, position) ==
    [self EXCEPT !.read_position = position,
                 !.read_buffer = IF IsNone(self.read_buffer)
                                 THEN Some(content)
                                 ELSE Some(content \o Get(self.read_buffer))]

\* mutant: a line is handed out only once the whole file is in the buffer
yieldable_at_start_only(self) ==
    ~IsNone(self.read_buffer) /\ self.read_position = 0

\* mutant: the start-of-file case is missing
yieldable_newline_only(self) ==
    IF IsNone(self.read_buffer) THEN FALSE
    ELSE LET t == _remove_trailing_new_line(Get(self.read_buffer), new_lines_bytes)
             n == _find_furthest_new_line(t, new_lines_bytes)
         IN  n >= 0

yieldable(self) ==
    IF IsNone(self.read_buffer) THEN FALSE
    ELSE LET t == _remove_trailing_new_line(Get(self.read_buffer), new_lines_bytes)
             n == _find_furthest_new_line(t, new_lines_bytes)
         IN  IF n >= 0 THEN TRUE
             ELSE IF self.read_position = 0 /\ ~IsNone(self.read_buffer) THEN TRUE
             ELSE FALSE

\* mutant: the buffer is not looked at
has_returned_every_line_position_only(self) ==
    self.read_position = 0

\* mutant: an empty buffer is taken for an absent one
has_returned_every_line_empty_bytes(self) ==
    self.read_position = 0 /\ self.read_buffer = Some(<<>>)

has_returned_every_line(self) ==
    IF self.read_position = 0 /\ IsNone(self.read_buffer) THEN TRUE ELSE FALSE

\* mutant: the line is cut from the buffer before its terminator is removed
return_line_unstripped(self) ==
    IF ~yieldable(self)
    THEN [raised |-> TRUE, r |-> <<>>, self |-> self]
    ELSE LET b == Get(self.read_buffer)
             t == _remove_trailing_new_line(b, new_lines_bytes)
             i == _find_furthest_new_line(t, new_lines_bytes)
         IN  IF i >= 0
             THEN [raised |-> FALSE,
                   r |-> Slice(b, i + 1, Len(b)),
                   self |-> [self EXCEPT !.read_buffer = Some(Slice(t, 0, i + 1))]]
             ELSE [raised |-> FALSE,
                   r |-> b,
                   self |-> [self EXCEPT !.read_buffer = None]]

\* mutant: the assert is missing; only a None buffer still raises
return_line_unchecked(self) ==
    IF IsNone(self.read_buffer)
    THEN [raised |-> TRUE, r |-> <<>>, self |-> self]
    ELSE LET t == _remove_trailing_new_line(Get(self.read_buffer), new_lines_bytes)
             i == _find_furthest_new_line(t, new_lines_bytes)
         IN  IF i >= 0
             THEN [raised |-> FALSE,
                   r |-> Slice(t, i + 1, Len(t)),
                   self |-> [self EXCEPT !.read_buffer = Some(Slice(t, 0, i + 1))]]
             ELSE [raised |-> FALSE,
                   r |-> t,
                   self |-> [self EXCEPT !.read_buffer = None]]

\* return_line(): raised = the assert failed; otherwise r is the returned line
\* and self the object afterwards
return_line(self) ==
    IF ~yieldable(self)
    THEN [raised |-> TRUE, r |-> <<>>, self |-> self]
    ELSE LET t == _remove_trailing_new_line(Get(self.read_buffer), new_lines_bytes)
             i == _find_furthest_new_line(t, new_lines_bytes)
         IN  IF i >= 0
             THEN [raised |-> FALSE,
                   r |-> Slice(t, i + 1, Len(t)),
                   self |-> [self EXCEPT !.read_buffer = Some(Slice(t, 0, i + 1))]]
             ELSE [raised |-> FALSE,
                   r |-> t,
                   self |-> [self EXCEPT !.read_buffer = None]]

\* one pass of the body of the while loop of read_until_yieldable
\* (fp.seek and fp.read leave the handle behind the bytes read)
read_chunk(self) ==
    LET c == _get_next_chunk(self.fp, self.read_position, self.chunk_size,
                             new_lines_bytes)
    IN  add_to_buffer([self EXCEPT !.fp.offset = c[2] + Len(c[1])], c[1], c[2])

\* ----------------------------------------------------------------- state
VARIABLES
    bws,        \* the BufferWorkSpace object: fp, read_position, read_buffer, chunk_size
    pc,         \* where the caller is: "idle", "ruy" (inside read_until_yieldable),
                \* and for the iteration driver "check", "emit", "done"
    nreads,     \* physical reads made by the current read_until_yieldable call
    lines,      \* the lines return_line has returned so far, in order
    ret,        \* outcome of the last completed call
    exhausted,  \* has_returned_every_line() has been true at some point
    session,    \* number of the BufferWorkSpace being driven (driver runs only)
    first       \* driver runs: what the first session read and produced

vars == <<bws, pc, nreads, lines, ret, exhausted, session, first>>

\* files: every content of at most MaxLen bytes over "x", CR and LF
Alphabet == {120, 13, 10}
Files == UNION {[1..n -> Alphabet] : n \in 0..MaxLen}
ChunkSizes == 1..MaxChunk

\* open(path, 'rb'): a fresh handle at offset 0
open(data) == [data |-> data, offset |-> 0]

\* model bounds that follow from MaxLen: no file of MaxLen bytes has more than
\* MaxLen lines, and no read_until_yieldable call on it needs MaxLen + 1 reads
MaxLines == MaxLen + 2
MaxReads == MaxLen + 2

Outcome(op, raised, b, line) ==
    [op |-> op, raised |-> raised, bool |-> b, line |-> line]

Construct(data, chunk, first_pc) ==
    /\ bws = BufferWorkSpace(open(data), chunk)
    /\ pc = first_pc
    /\ nreads = 0
    /\ lines = <<>>
    /\ ret = Outcome("__init__", FALSE, FALSE, <<>>)
    /\ exhausted = has_returned_every_line(bws)
    /\ session = 1
    /\ first = <<>>

\* a caller that may call any method at any time
Init == \E data \in Files, chunk \in ChunkSizes : Construct(data, chunk, "idle")

Seen(self) == exhausted' = (exhausted \/ has_returned_every_line(self))

\* --------------------------------------------------------------- actions
\* yieldable() called by the caller
call_yieldable ==
    /\ pc = "idle"
    /\ ret' = Outcome("yieldable", FALSE, yieldable(bws), <<>>)
    /\ UNCHANGED <<bws, pc, nreads, lines, exhausted, session, first>>

\* has_returned_every_line() called by the caller
call_has_returned_every_line ==
    /\ pc = "idle"
    /\ ret' = Outcome("has_returned_every_line", FALSE,
                      has_returned_every_line(bws), <<>>)
    /\ UNCHANGED <<bws, pc, nreads, lines, exhausted, session, first>>

\* the effect of return_line() on the object, the produced lines and ret
do_return_line ==
    LET o == return_line(bws)
    IN  /\ bws' = o.self
        /\ lines' = IF o.raised THEN lines ELSE Append(lines, o.r)
        /\ ret' = Outcome("return_line", o.raised, FALSE, o.r)
        /\ Seen(o.self)

\* return_line() called by the caller, in any state
call_return_line ==
    /\ pc = "idle"
    /\ Len(lines) < MaxLines
    /\ do_return_line
    /\ UNCHANGED <<pc, nreads, session, first>>

\* read_until_yieldable() is entered
call_read_until_yieldable ==
    /\ pc = "idle"
    /\ pc' = "ruy"
    /\ nreads' = 0
    /\ UNCHANGED <<bws, lines, ret, exhausted, session, first>>

\* read_until_yieldable: the loop condition is true, one chunk is read and added
ruy_iter ==
    /\ pc = "ruy"
    /\ ~yieldable(bws)
    /\ nreads < MaxReads
    /\ bws' = read_chunk(bws)
    /\ nreads' = nreads + 1
    /\ Seen(bws')
    /\ UNCHANGED <<pc, lines, ret, session, first>>

\* read_until_yieldable: the loop condition is false, the call returns
ruy_exit(to) ==
    /\ pc = "ruy"
    /\ yieldable(bws)
    /\ pc' = to
    /\ ret' = Outcome("read_until_yieldable", FALSE, FALSE, <<>>)
    /\ UNCHANGED <<bws, nreads, lines, exhausted, session, first>>

ruy_return == ruy_exit("idle")

Next ==
    \/ call_yieldable
    \/ call_has_returned_every_line
    \/ call_return_line
    \/ call_read_until_yieldable
    \/ ruy_iter
    \/ ruy_return

Spec == Init /\ [][Next]_vars

\* ------------------------------------------------------ iteration driver
\* The caller that iterates over the file:
\*     while not has_returned_every_line(): read_until_yieldable(); return_line()
\* A driver run reads the file once, then opens a second BufferWorkSpace, with
\* any chunk size, on the same content or on the content with every "\n"
\* written as "\r\n", and reads that; `first` keeps what the first one produced.

DriverInit ==
    \E data \in Files, chunk \in ChunkSizes : Construct(data, chunk, "check")

\* the loop condition: has_returned_every_line() ends the loop, otherwise
\* read_until_yieldable() is entered
drv_has_returned_every_line ==
    /\ pc = "check"
    /\ ret' = Outcome("has_returned_every_line", FALSE,
                      has_returned_every_line(bws), <<>>)
    /\ pc' = IF has_returned_every_line(bws) THEN "done" ELSE "ruy"
    /\ nreads' = 0
    /\ UNCHANGED <<bws, lines, exhausted, session, first>>

drv_ruy_return == ruy_exit("emit")

\* return_line() right after read_until_yieldable()
drv_return_line ==
    /\ pc = "emit"
    /\ do_return_line
    /\ pc' = "check"
    /\ UNCHANGED <<nreads, session, first>>

\* data with every "\n" written as "\r\n"
RECURSIVE to_crlf(_)
to_crlf(data) ==
    IF data = <<>> THEN <<>>
    ELSE (IF Head(data) = 10 THEN <<13, 10>> ELSE <<Head(data)>>)
         \o to_crlf(Tail(data))

HasCR(data) == \E i \in DOMAIN data : data[i] = 13

Reopen(data, chunk) ==
    /\ pc = "done"
    /\ session = 1
    /\ first' = <<[data |-> bws.fp.data, chunk_size |-> bws.chunk_size,
                   lines |-> lines]>>
    /\ session' = 2
    /\ bws' = BufferWorkSpace(open(data), chunk)
    /\ pc' = "check"
    /\ nreads' = 0
    /\ lines' = <<>>
    /\ ret' = Outcome("__init__", FALSE, FALSE, <<>>)
    /\ exhausted' = has_returned_every_line(bws')

\* the same file again, with another chunk size
drv_reopen == \E chunk \in ChunkSizes : Reopen(bws.fp.data, chunk)

\* the same logical lines terminated by "\r\n" instead of "\n"
drv_reopen_crlf ==
    /\ ~HasCR(bws.fp.data)
    /\ \E chunk \in ChunkSizes : Reopen(to_crlf(bws.fp.data), chunk)

DriverNext ==
    \/ drv_has_returned_every_line
    \/ ruy_iter
    \/ drv_ruy_return
    \/ drv_return_line
    \/ drv_reopen
    \/ drv_reopen_crlf

DriverSpec == DriverInit /\ [][DriverNext]_vars

\* __init__ does not look at chunk_size: a caller may also construct the
\* BufferWorkSpace with a chunk size of 0
CfgInit ==
    \E data \in Files, chunk \in 0..MaxChunk : Construct(data, chunk, "idle")
CfgSpec == CfgInit /\ [][Next]_vars

\* ------------------------------------------------- reference definitions
IsNL(b) == b \in {10, 13}

\* the file split front to back: "\r\n" is one terminator, else "\n" or "\r";
\* each entry is a line and the terminator that ended it (<<>> for none)
RECURSIVE split_lines(_, _)
split_lines(data, cur) ==
    IF data = <<>>
    THEN IF cur = <<>> THEN <<>> ELSE <<[line |-> cur, term |-> <<>>]>>
    ELSE IF Len(data) >= 2 /\ data[1] = 13 /\ data[2] = 10
    THEN <<[line |-> cur, term |-> <<13, 10>>]>> \o split_lines(Tail(Tail(data)), <<>>)
    ELSE IF IsNL(Head(data))
    THEN <<[line |-> cur, term |-> <<Head(data)>>]>> \o split_lines(Tail(data), <<>>)
    ELSE split_lines(Tail(data), cur \o <<Head(data)>>)

FileLines(data) == split_lines(data, <<>>)

\* ls[i] followed by the i-th original terminator, for every i, concatenated
RECURSIVE join_lines(_, _, _)
join_lines(ls, terms, i) ==
    IF i > Len(ls) THEN <<>>
    ELSE ls[i] \o terms[i].term \o join_lines(ls, terms, i + 1)

\* terminators of the file ("\r\n" counted once)
NumTerminators(data) ==
    Cardinality({i \in DOMAIN data : IsNL(data[i])})
    - Cardinality({i \in DOMAIN data :
                      i < Len(data) /\ data[i] = 13 /\ data[i + 1] = 10})

EndsUnterminated(data) == data # <<>> /\ ~IsNL(data[Len(data)])

ExpectedLineCount(data) ==
    NumTerminators(data) + (IF EndsUnterminated(data) THEN 1 ELSE 0)

BufLen(self) == IF IsNone(self.read_buffer) THEN 0 ELSE Len(Get(self.read_buffer))

Data == bws.fp.data

\* ----------------------------------------------------------------- claims

\* C1: when the driver loop ends, the returned lines are exactly the file's
\* lines (split at "\r\n", "\n" or "\r"), last line first, terminators removed,
\* and reversing them and re-inserting the original terminators gives back
\* the file bytes.
C1_ReverseLines ==
    pc = "done" =>
        /\ Len(lines) = Len(FileLines(Data))
        /\ \A i \in DOMAIN lines :
               lines[i] = FileLines(Data)[Len(lines) + 1 - i].line
        /\ join_lines(Reverse(lines), FileLines(Data), 1) = Data

C1_Witness ==
    /\ pc = "done"
    /\ bws.chunk_size = 1
    /\ Data = <<120, 13, 10, 120>>
    /\ lines = << <<120>>, <<120>> >>

\* C2: a second read of the same content with any other chunk size returns
\* the same sequence of lines as the first read did.
C2_ChunkSizeIndependent ==
    (pc = "done" /\ session = 2 /\ first[1].data = Data)
        => lines = first[1].lines

C2_Witness ==
    /\ pc = "done" /\ session = 2
    /\ first[1].data = Data
    /\ first[1].chunk_size = 1
    /\ bws.chunk_size > Len(Data)
    /\ Len(lines) >= 3

\* C3: the lines returned for a content that uses "\n" throughout and for the
\* same content with "\r\n" in place of every "\n" are the same byte
\* sequences, whatever the two chunk sizes.
C3_TerminatorAgnostic ==
    (pc = "done" /\ session = 2 /\ ~HasCR(first[1].data)
        /\ Data = to_crlf(first[1].data))
        => lines = first[1].lines

C3_Witness ==
    /\ pc = "done" /\ session = 2
    /\ ~HasCR(first[1].data)
    /\ Data = to_crlf(first[1].data)
    /\ Data # first[1].data
    /\ bws.chunk_size = 1
    /\ Len(lines) >= 2
    /\ \E i \in DOMAIN lines : lines[i] # <<>>

\* C4: under the driver loop has_returned_every_line() is true exactly when
\* the number of returned lines is the number of terminators of the file plus
\* one for trailing content without a terminator; never more lines than that
\* are returned.
C4_ExhaustionCount ==
    /\ Len(lines) <= ExpectedLineCount(Data)
    /\ has_returned_every_line(bws) <=> (Len(lines) = ExpectedLineCount(Data))

C4_Witness ==
    /\ pc = "done"
    /\ Len(lines) = 3
    /\ EndsUnterminated(Data)
    /\ has_returned_every_line(bws)

\* C5: whatever the caller calls, 0 <= read_position <= file size, and no step
\* increases read_position.
C5_ReadPositionBounded ==
    /\ [](0 <= bws.read_position /\ bws.read_position <= _get_file_size(bws.fp))
    /\ [][bws'.read_position <= bws.read_position]_vars

C5_Witness ==
    /\ 0 < bws.read_position
    /\ bws.read_position < _get_file_size(bws.fp) - 1
    /\ Len(lines) >= 1
    /\ ret.op = "has_returned_every_line"

\* C6: read_until_yieldable() returns, with yieldable() true, after at most
\* file-size reads (one for an empty file): while the loop has not yet found
\* the buffer yieldable it has made fewer reads than that; each read made
\* while read_position > 0 reads at least one byte and lowers read_position;
\* a read that leaves read_position at 0 leaves the buffer yieldable.
C6_ReadUntilYieldableTerminates ==
    /\ []((pc = "ruy" /\ ~yieldable(bws))
             => nreads < Max2(_get_file_size(bws.fp), 1))
    /\ [][(nreads' = nreads + 1 /\ bws.read_position > 0)
             => /\ bws'.read_position < bws.read_position
                /\ BufLen(bws') >= BufLen(bws) + 1]_vars
    /\ [][(nreads' = nreads + 1 /\ bws'.read_position = 0)
             => yieldable(bws')]_vars
    /\ [][(pc = "ruy" /\ pc' # "ruy")
             => /\ yieldable(bws')
                /\ nreads' <= Max2(_get_file_size(bws.fp), 1)]_vars

C6_Witness ==
    /\ pc = "idle"
    /\ ret.op = "read_until_yieldable"
    /\ yieldable(bws)
    /\ _get_file_size(bws.fp) >= 3
    /\ nreads = _get_file_size(bws.fp)

\* C7: return_line() called while yieldable() is false raises the assertion
\* failure, returns no line and leaves the object as it was.
C7_ReturnLineAsserts ==
    [][(pc = "idle" /\ pc' = "idle" /\ ret'.op = "return_line" /\ ~yieldable(bws))
          => (ret'.raised /\ ret'.line = <<>> /\ lines' = lines /\ bws' = bws)]_vars

C7_Witness ==
    /\ ret.op = "return_line"
    /\ ret.raised
    /\ ~IsNone(bws.read_buffer)
    /\ BufLen(bws) >= 2
    /\ Len(lines) >= 1

\* C8: a BufferWorkSpace with chunk_size <= 0 is rejected at construction, so
\* read_until_yieldable never runs, and never reads, with such a chunk size.
C8_NonPositiveChunkRejected ==
    bws.chunk_size <= 0 => (pc # "ruy" /\ nreads = 0)

\* C9: for a zero-length file read_position is 0 and the buffer is None from
\* construction on, has_returned_every_line() is true, and the driver loop
\* never gets a line.
C9_EmptyFile ==
    Data = <<>> =>
        /\ bws.read_position = 0
        /\ IsNone(bws.read_buffer)
        /\ has_returned_every_line(bws)
        /\ lines = <<>>

C9_Witness ==
    /\ Data = <<>>
    /\ pc = "done"
    /\ ret.op = "has_returned_every_line"
    /\ ret.bool

\* C10: once has_returned_every_line() has been true, no later call
\* (read_until_yieldable() followed by return_line()) returns a further line.
C10_NoLineAfterExhaustion ==
    [][exhausted => lines' = lines]_vars

\* the number of bytes the next pass of read_until_yieldable asks fp.read for
ReadRequest(self) ==
    _get_what_to_read_next(self.fp, self.read_position, self.chunk_size,
                           new_lines_bytes)[2]

\* the "\n" bytes at offsets p, p - 1, ... down to the first offset that is 0
\* or holds another byte
RECURSIVE LFRun(_, _)
LFRun(data, p) ==
    IF p > 0 /\ p < Len(data) /\ data[p + 1] = 10
    THEN 1 + LFRun(data, p - 1)
    ELSE 0

\* the longest run of consecutive "\n" bytes of the file
MaxLFRun(data) ==
    LET runs == {LFRun(data, p) : p \in 0..Len(data)}
    IN  CHOOSE m \in runs : \A r \in runs : r <= m

\* the longest line of the file, its terminator included (0 for no line)
MaxLineWithTerm(data) ==
    LET ls == FileLines(data)
        lens == {Len(ls[i].line) + Len(ls[i].term) : i \in DOMAIN ls} \cup {0}
    IN  CHOOSE m \in lens : \A l \in lens : l <= m

\* a step that is one physical read of read_until_yieldable
IsRead == nreads' = nreads + 1

\* C11 (as claimed): every read that fills the buffer asks for at most
\* chunk_size bytes.
C11_ReadAtMostChunkSize ==
    [][IsRead => ReadRequest(bws) <= bws.chunk_size]_vars

\* C11 (amended): every read that fills the buffer asks for at most chunk_size
\* bytes plus one byte for every "\n" stepped back over from the offset
\* max(read_position - chunk_size, 0); the bytes it adds are as many.
C11_ReadAtMostChunkSizePlusStepBack ==
    [][IsRead =>
          /\ ReadRequest(bws) <= bws.chunk_size
                 + LFRun(Data, Max2(bws.read_position - bws.chunk_size, 0))
          /\ BufLen(bws') - BufLen(bws) = ReadRequest(bws)]_vars

C11_Witness ==
    /\ pc = "ruy"
    /\ nreads = 1
    /\ lines = <<>>
    /\ Data = <<120, 13, 10, 10>>
    /\ bws.chunk_size = 1
    /\ bws.read_position = 1
    /\ BufLen(bws) = 3

\* C12 (as claimed): under the driver loop the buffer is never longer than
\* chunk_size plus one line of the file with its terminator.
C12_BufferAtMostChunkPlusLine ==
    BufLen(bws) <= bws.chunk_size + MaxLineWithTerm(Data)

\* C12 (amended): under the driver loop the buffer is never longer than
\* chunk_size plus one line of the file with its terminator plus the longest
\* run of "\n" bytes of the file (a read steps back over such a run).
C12_BufferAtMostChunkPlusLinePlusRun ==
    BufLen(bws) <= bws.chunk_size + MaxLineWithTerm(Data) + MaxLFRun(Data)

C12_Witness ==
    /\ pc = "ruy"
    /\ Data = <<13, 10, 13, 10>>
    /\ bws.chunk_size = 1
    /\ BufLen(bws) = 4
    /\ lines = <<>>

\* line with one trailing terminator removed, "\r\n" before "\n" and "\r"
StripOne(line) ==
    IF Len(line) >= 2 /\ line[Len(line) - 1] = 13 /\ line[Len(line)] = 10
    THEN SubSeq(line, 1, Len(line) - 2)
    ELSE IF line # <<>> /\ IsNL(line[Len(line)])
    THEN SubSeq(line, 1, Len(line) - 1)
    ELSE line

ContainsNL(line) == \E i \in DOMAIN line : IsNL(line[i])

\* C13: yieldable() is false when the buffer is empty or absent; otherwise it
\* is true exactly when the buffer with one trailing terminator stripped still
\* contains a terminator, or contains none while read_position = 0.
C13_YieldableExactly ==
    yieldable(bws) <=>
        /\ BufLen(bws) > 0
        /\ \/ ContainsNL(StripOne(Get(bws.read_buffer)))
           \/ bws.read_position = 0

\* C14: has_returned_every_line() is true exactly when read_position = 0 and
\* the buffer is empty or absent.
C14_HasReturnedExactly ==
    has_returned_every_line(bws) <=> (bws.read_position = 0 /\ BufLen(bws) = 0)

\* C15: a buffer that is not None holds the file bytes at the offsets from
\* read_position on, and a read puts exactly the bytes between the new and the
\* previous read_position in front of it.
C15_BufferIsFileSlice ==
    /\ [](~IsNone(bws.read_buffer) =>
             Get(bws.read_buffer)
                 = SubSeq(Data, bws.read_position + 1,
                          bws.read_position + BufLen(bws)))
    /\ [][IsRead =>
             Get(bws'.read_buffer)
                 = SubSeq(Data, bws'.read_position + 1, bws.read_position)
                   \o (IF IsNone(bws.read_buffer) THEN <<>>
                       ELSE Get(bws.read_buffer))]_vars

C15_Witness ==
    /\ pc = "ruy"
    /\ nreads = 1
    /\ Len(lines) = 1
    /\ bws.chunk_size = 2
    /\ Data = <<120, 120, 10, 120>>
    /\ bws.read_position = 0
    /\ Get(bws.read_buffer) = <<120, 120, 10>>

\* the empty lines among ls
EmptyCount(ls) == Cardinality({i \in DOMAIN ls : ls[i] = <<>>})

FileLineBytes(data) == [i \in DOMAIN FileLines(data) |-> FileLines(data)[i].line]

\* C16: after every read, read_position is 0 or the file byte at read_position
\* is not the "\n" of a "\r\n" (not a "\n" at all), so no "\r\n" is split
\* between two reads; and the finished driver loop has returned exactly as
\* many empty lines as the file has.
C16_NoSplitTerminator ==
    /\ [][IsRead =>
             \/ bws'.read_position = 0
             \/ /\ bws'.read_position < Len(Data)
                /\ Data[bws'.read_position + 1] # 10]_vars
    /\ [](pc = "done" => EmptyCount(lines) = EmptyCount(FileLineBytes(Data)))

C16_Witness ==
    /\ pc = "done"
    /\ session = 1
    /\ bws.chunk_size = 1
    /\ Data = <<120, 13, 10, 120>>
    /\ EmptyCount(lines) = 0
    /\ Len(lines) = 2

\* a step in which return_line() returned a line
IsReturn == Len(lines') = Len(lines) + 1

\* the 1-based index of the last terminator byte of line
LastNL(line) ==
    CHOOSE i \in DOMAIN line :
        IsNL(line[i]) /\ \A j \in DOMAIN line : IsNL(line[j]) => j <= i

\* C17: return_line() strips exactly one trailing terminator, "\r\n" as a
\* whole; if a terminator remains, the line is what follows the last one and
\* the buffer keeps everything up to and including it; otherwise the line is
\* the whole remainder and the buffer becomes None.
C17_ReturnLineSplit ==
    [][IsReturn =>
          LET t == StripOne(Get(bws.read_buffer))
          IN  /\ ret'.line = lines'[Len(lines')]
              /\ IF ContainsNL(t)
                 THEN /\ ret'.line = SubSeq(t, LastNL(t) + 1, Len(t))
                      /\ bws'.read_buffer = Some(SubSeq(t, 1, LastNL(t)))
                 ELSE /\ ret'.line = t
                      /\ IsNone(bws'.read_buffer)]_vars

C17_Witness ==
    /\ ret.op = "return_line"
    /\ ~ret.raised
    /\ ret.line = <<>>
    /\ Data = <<120, 13, 10, 10>>
    /\ bws.read_buffer = Some(<<120, 13, 10>>)
    /\ Len(lines) = 1

\* C18: no line return_line() has returned contains a "\r" or "\n" byte.
C18_NoTerminatorInLine ==
    \A i \in DOMAIN lines : ~ContainsNL(lines[i])

C18_Witness ==
    /\ Len(lines) >= 3
    /\ \E i \in DOMAIN lines : Len(lines[i]) >= 1
    /\ \E i \in DOMAIN Data : Data[i] = 13
    /\ \E i \in DOMAIN Data : Data[i] = 10
    /\ pc = "idle"

\* old is None, or new holds old as its right end
IsRightEnd(old, new) ==
    \/ IsNone(old)
    \/ /\ ~IsNone(new)
       /\ Len(Get(old)) <= Len(Get(new))
       /\ SubSeq(Get(new), Len(Get(new)) - Len(Get(old)) + 1, Len(Get(new)))
              = Get(old)

\* C19: return_line() leaves read_position and the file handle alone;
\* yieldable() and has_returned_every_line() leave the whole object alone;
\* read_position changes only in a read of read_until_yieldable, and such a
\* read keeps the buffered bytes as the right end of the buffer.
C19_Frame ==
    [][/\ (pc = "idle" /\ pc' = "idle" /\ ret'.op = "return_line")
             => (bws'.read_position = bws.read_position /\ bws'.fp = bws.fp)
       /\ (pc = "idle" /\ pc' = "idle"
             /\ ret'.op \in {"yieldable", "has_returned_every_line"})
             => bws' = bws
       /\ (bws'.read_position # bws.read_position) => (pc = "ruy" /\ IsRead)
       /\ (bws'.fp # bws.fp) => (pc = "ruy" /\ IsRead)
       /\ (pc = "ruy") => IsRightEnd(bws.read_buffer, bws'.read_buffer)]_vars

C19_Witness ==
    /\ pc = "ruy"
    /\ nreads >= 1
    /\ Len(lines) = 1
    /\ ret.op = "return_line"
    /\ ~ret.raised
    /\ bws.fp.offset > bws.read_position
    /\ BufLen(bws) >= 3

====
